---- MODULE Spec2Model ----
(***************************************************************************)
(* Aletheia: the falsification engine parallel_trials of                   *)
(* src/aletheia/core.py, with the thread pool it drives.                   *)
(*                                                                         *)
(* One evaluation is a main thread (the aggregator, variable pc) and the   *)
(* worker threads of a concurrent.futures.ThreadPoolExecutor (variables    *)
(* queue, worker, done).  Strings are TLA+ strings; a SHA-256 digest is    *)
(* modelled by the byte string that is hashed, i.e. the hash is taken to   *)
(* be injective.                                                           *)
(***************************************************************************)
EXTENDS Integers, Sequences, FiniteSets, TLC

(***************************************************************************)
(* Bounds of the model.                                                    *)
(***************************************************************************)
\* largest trial budget claim.trials
MaxTrials == 5
\* size of one dispatch batch.  core.py:108 fixes it to 128; the model keeps
\* the batch size a parameter so that budgets of several batches are within
\* reach of exhaustive checking.
batch == 2
\* largest size of the worker pool
MaxWorkers == 2
\* number of calls of parallel_trials made with the same arguments
MaxRuns == 2
\* largest number of seeds on which a plugin raises
MaxRaising == 1
\* the trial budget of the runs that fill sample_failures
MaxSampleBudget == 6

\* Python's None where a string is expected
None == "None"
\* an Optional value that is not a string: <<>> is None, <<v>> is v
Absent == <<>>
Some(v) == <<v>>
\* a worker thread that runs nothing
Idle == Absent

\* core.py:92, the cap of the default pool size
DefaultWorkerCap == 32
\* core.py:92, the pool size assumed when os.cpu_count() is None
DefaultCpuFallback == 2
\* core.py:119, the cap of sample_failures
SampleCap == 5
\* core.py:66, the numerator of the rule of three
RuleOfThree == 3

Min(a, b) == IF a < b THEN a ELSE b

(***************************************************************************)
(* Registries, as populated by importing adversaries, oracles, plugins.    *)
(***************************************************************************)
GEN_REGISTRY == {"dup_heavy_small", "nearly_sorted", "float_dot_vectors"}
ORACLE_REGISTRY == {"sort_correctness", "dot_correctness"}
IMPL_REGISTRY == {"buggy_quicksort", "quicksort3", "dot_naive", "dot_kahan"}

\* names a caller may pass: one registered name of each kind, and one that
\* no module registers
Adversaries == {"dup_heavy_small", "no_such_generator"}
Oracles == {"sort_correctness", "no_such_oracle"}
Impls == {"quicksort3", "no_such_impl"}
ClaimIds == {"SortsCorrect@quicksort3"}
MasterSeeds == {"seed"}

\* dataclass Claim, the fields parallel_trials reads
Claim == [id : ClaimIds, adversary : Adversaries, oracle : Oracles,
          trials : 0..MaxTrials, stop_on_first_failure : BOOLEAN]

(***************************************************************************)
(* derive_seed: sha256(master_seed | namespace | str(idx)), first 8 bytes. *)
(***************************************************************************)
derive_seed(ms, namespace, idx) ==
    ms \o "|" \o namespace \o "|" \o ToString(idx)

\* every seed a run of the widest budget can derive
Seeds(ms, c) == {derive_seed(ms, c.id, k) : k \in 0..(MaxTrials - 1)}

VARIABLES
    claim,            \* argument claim
    impl_name,        \* argument impl_name
    master_seed,      \* argument master_seed
    plugins,          \* behaviour of gen, impl, oracle as a function of the seed
    runs,             \* calls of parallel_trials made so far
    pc,               \* position of the main thread
    max_workers,      \* local max_workers
    failures,         \* local failures
    sample_failures,  \* local sample_failures
    rng_commit,       \* local rng_commit
    stop,             \* local stop
    results,          \* local results
    i,                \* local i, the dispatch cursor
    futs,             \* local futs, the futures of the current batch
    yielded,          \* futures as_completed has handed out
    queue,            \* executor work queue
    worker,           \* what each worker thread is running
    done,             \* finished futures: index -> outcome
    ret,              \* the returned ClaimResult
    error,            \* the exception parallel_trials raised
    trialLog,         \* history: every trial execution of every run
    retLog,           \* history: what every call returned
    gen,              \* the generator's output as a function of the seed
    seeding,          \* calls of derive_seed
    certs,            \* certificates being built and hashed
    reader,           \* sha256_hex reading a certificate file
    belief,           \* a BetaBernoulliClaim
    sweep             \* the distinctness sweep of the demo

vars == <<claim, impl_name, master_seed, plugins, runs, pc, max_workers,
          failures, sample_failures, rng_commit, stop, results, i, futs,
          yielded, queue, worker, done, ret, error, trialLog, retLog,
          gen, seeding, certs, reader, belief, sweep>>

\* the state of the components other than the falsification engine
components == <<seeding, certs, reader, belief, sweep>>

\* what a step of parallel_trials leaves alone: its arguments, the plugins
\* behind the registered names, and the other components
args == <<claim, impl_name, master_seed, plugins, gen, components>>
locals == <<max_workers, failures, sample_failures, rng_commit, stop,
            results, i, futs, yielded>>
pool == <<queue, worker, done>>

Workers == 1..MaxWorkers

(***************************************************************************)
(* rule_of_three_upper_bound: 3.0 / float(n), kept as the exact fraction   *)
(* <<numerator, denominator>>; <<>> is None.                               *)
(***************************************************************************)
rule_of_three_any_failures(f, n) ==
    IF n > 0 THEN <<RuleOfThree, n>> ELSE Absent

rule_of_three_upper_bound(f, n) ==
    IF f = 0 /\ n > 0 THEN <<RuleOfThree, n>> ELSE Absent

(***************************************************************************)
(* run_one: one trial.  The generator, the implementation and the oracle   *)
(* are deterministic functions of the random source, which is seeded with  *)
(* seed; plugins says on which seeds one of them raises and on which the   *)
(* oracle rejects.  The value is the state of the finished future.         *)
(***************************************************************************)
TrialResult(idx, inp, ok) ==
    [idx |-> idx, input_data |-> inp, passed |-> ok,
     details |-> IF ok THEN {} ELSE {"reason"}]

\* run_one seeding its random source from the index and the worker count
run_one_seeded_per_pool(j) ==
    LET seed == derive_seed(master_seed, claim.id, j + max_workers)
    IN  IF seed \in plugins.raises
        THEN [exception |-> plugins.stage, seed |-> seed, result |-> Absent]
        ELSE [exception |-> None, seed |-> seed,
              result |->
                 Some(TrialResult(j, seed, seed \notin plugins.rejects))]

\* run_one drawing from a random source shared by the trials: the seed
\* depends on how many trials finished before
run_one_shared_rng(j) ==
    LET seed == derive_seed(master_seed, claim.id, Cardinality(DOMAIN done))
    IN  IF seed \in plugins.raises
        THEN [exception |-> plugins.stage, seed |-> seed, result |-> Absent]
        ELSE [exception |-> None, seed |-> seed,
              result |->
                 Some(TrialResult(j, seed, seed \notin plugins.rejects))]

run_one(j) ==
    LET seed == derive_seed(master_seed, claim.id, j)
    IN  IF seed \in plugins.raises
        THEN [exception |-> plugins.stage, seed |-> seed, result |-> Absent]
        ELSE [exception |-> None, seed |-> seed,
              result |->
                 Some(TrialResult(j, seed, seed \notin plugins.rejects))]

(***************************************************************************)
(* parallel_trials, lines 88-90: the three registry lookups.               *)
(***************************************************************************)
\* the implementation looked up only when a trial calls it
LookupWithoutImpl(c, name) ==
    /\ c.adversary \in GEN_REGISTRY
    /\ c.oracle \in ORACLE_REGISTRY

Lookup(c, name) ==
    /\ c.adversary \in GEN_REGISTRY
    /\ c.oracle \in ORACLE_REGISTRY
    /\ name \in IMPL_REGISTRY

\* lines 91-92; cpus is os.cpu_count(), 0 standing for None as well
ResolveWorkers(mw, cpus) ==
    IF mw <= 0
    THEN Min(DefaultWorkerCap, IF cpus = 0 THEN DefaultCpuFallback ELSE cpus)
    ELSE mw

\* the commitment also covering the trial budget
RngCommitWithBudget(ms, c, name) ==
    ms \o "|" \o c.id \o "|" \o name \o "|" \o ToString(c.trials)

\* line 96
RngCommit(ms, c, name) == ms \o "|" \o c.id \o "|" \o name

StopFlagAlways(c) == TRUE

StopFlagNever(c) == FALSE

\* line 97
StopFlag(c) == c.stop_on_first_failure

\* two batches handed out per iteration
IdxsTwoBatches(cur, c) == cur .. (Min(cur + 2 * batch, c.trials) - 1)

\* the last batch not clipped to the budget
IdxsUnclipped(cur, c) == cur .. (cur + batch - 1)

\* line 112
Idxs(cur, c) == cur .. (Min(cur + batch, c.trials) - 1)

\* a failure counted only while the counter is still 0
IsFailureOnlyOnce(tr) == ~tr.passed /\ failures = 0

IsFailureInverted(tr) == tr.passed

\* line 117
IsFailure(tr) == ~tr.passed

\* no sample is ever kept
SampleRoomNever(samples) == FALSE

SampleRoomOffByOne(samples) == Len(samples) <= SampleCap

\* line 119
SampleRoom(samples) == Len(samples) < SampleCap

\* line 125
EarlyStop(f, s) == f # 0 /\ s

\* a cursor that stays where it is
NextCursorStuck(cur) == cur

\* line 124: i += batch
NextCursor(cur) == cur + batch

FreshLocals ==
    /\ max_workers = 0
    /\ failures = 0
    /\ sample_failures = <<>>
    /\ rng_commit = None
    /\ stop = FALSE
    /\ results = <<>>
    /\ i = 0
    /\ futs = <<>>
    /\ yielded = {}

FreshPool ==
    /\ queue = <<>>
    /\ worker = [w \in Workers |-> Idle]
    /\ done = <<>>

\* a component that is not in use
Off == <<>>

ComponentsOff ==
    /\ seeding = Off
    /\ certs = Off
    /\ reader = Off
    /\ belief = Off
    /\ sweep = Off

Init ==
    /\ ComponentsOff
    /\ gen = Off
    /\ retLog = {}
    /\ claim \in Claim
    /\ impl_name \in Impls
    /\ master_seed \in MasterSeeds
    /\ plugins \in [rejects : SUBSET Seeds(master_seed, claim),
                    raises : SUBSET Seeds(master_seed, claim),
                    stage : {"gen", "impl", "oracle"}]
    /\ Cardinality(plugins.raises) <= MaxRaising
    /\ plugins.raises \cap plugins.rejects = {}
    /\ plugins.raises = {} => plugins.stage = "gen"
    /\ \A k \in 0..(MaxTrials - 1) :
          k >= claim.trials =>
             derive_seed(master_seed, claim.id, k)
                \notin (plugins.rejects \cup plugins.raises)
    /\ runs = 0
    /\ pc = "idle"
    /\ FreshLocals
    /\ FreshPool
    /\ ret = Absent
    /\ error = Absent
    /\ trialLog = {}

(***************************************************************************)
(* parallel_trials, lines 87-109: entry up to the with statement.          *)
(***************************************************************************)
Call(mw, cpus) ==
    /\ pc \in {"idle", "returned", "raised"}
    /\ runs < MaxRuns
    /\ runs' = runs + 1
    /\ ret' = Absent
    /\ failures' = 0
    /\ sample_failures' = <<>>
    /\ results' = <<>>
    /\ i' = 0
    /\ futs' = <<>>
    /\ yielded' = {}
    /\ queue' = <<>>
    /\ worker' = [w \in Workers |-> Idle]
    /\ done' = <<>>
    /\ IF Lookup(claim, impl_name)
       THEN /\ max_workers' = ResolveWorkers(mw, cpus)
            /\ rng_commit' = RngCommit(master_seed, claim, impl_name)
            /\ stop' = StopFlag(claim)
            /\ error' = Absent
            /\ pc' = "while"
       ELSE /\ max_workers' = 0
            /\ rng_commit' = None
            /\ stop' = FALSE
            /\ error' = Some([type |-> "KeyError", stage |-> "lookup", idx |-> -1])
            /\ pc' = "raised"
    /\ UNCHANGED <<args, trialLog, retLog>>

\* line 111: while i < claim.trials
WhileTest ==
    /\ pc = "while"
    /\ IF i < claim.trials
       THEN /\ pc' = "submit"
            /\ futs' = <<>>
            /\ yielded' = {}
       ELSE /\ pc' = "exit"
            /\ UNCHANGED <<futs, yielded>>
    /\ UNCHANGED <<args, runs, max_workers, failures, sample_failures,
                   rng_commit, stop, results, i, pool, ret, error, trialLog, retLog>>

\* line 113: ex.submit(run_one, j) for the next j of idxs
Submit ==
    /\ pc = "submit"
    /\ LET idxs == Idxs(i, claim)
           j == i + Len(futs)
       IN  /\ j \in idxs
           /\ queue' = Append(queue, j)
           /\ futs' = Append(futs, j)
           /\ pc' = IF j + 1 \in idxs THEN "submit" ELSE "collect"
    /\ UNCHANGED <<args, runs, max_workers, failures, sample_failures,
                   rng_commit, stop, results, i, yielded, worker, done,
                   ret, error, trialLog, retLog>>

(***************************************************************************)
(* The worker threads of the executor: a free thread takes the head of the *)
(* work queue; a running trial finishes and completes its future.          *)
(***************************************************************************)
WorkerStart(w) ==
    /\ w <= max_workers
    /\ worker[w] = Idle
    /\ queue # <<>>
    /\ worker' = [worker EXCEPT ![w] = Some(Head(queue))]
    /\ queue' = Tail(queue)
    /\ UNCHANGED <<args, runs, pc, locals, done, ret, error, trialLog, retLog>>

WorkerFinish(w) ==
    /\ worker[w] # Idle
    /\ LET j == worker[w][1]
           f == run_one(j)
       IN  /\ done' = (j :> f) @@ done
           /\ trialLog' = trialLog \cup
                 {[run |-> runs, idx |-> j, seed |-> f.seed,
                   order |-> Cardinality(DOMAIN done),
                   outcome |-> IF f.exception # None THEN "raise"
                               ELSE IF f.result[1].passed THEN "pass"
                               ELSE "fail"]}
    /\ worker' = [worker EXCEPT ![w] = Idle]
    /\ UNCHANGED <<args, runs, pc, locals, queue, ret, error, retLog>>

(***************************************************************************)
(* Lines 114-123: one iteration of `for fut in cf.as_completed(futs)`.     *)
(* as_completed hands out the futures that were already finished when it   *)
(* was called in the iteration order of a set, and the others as they      *)
(* finish: any finished future not yet handed out can be the next one.     *)
(* fut.result() re-raises what run_one raised; nothing catches it, so it   *)
(* leaves the loops and the with statement.                                *)
(***************************************************************************)
Yield(j) ==
    /\ pc = "collect"
    /\ j \in {futs[k] : k \in 1..Len(futs)}
    /\ j \notin yielded
    /\ j \in DOMAIN done
    /\ yielded' = yielded \cup {j}
    /\ IF done[j].exception # None
       THEN /\ pc' = "exit_exc"
            /\ error' = Some([type |-> "Exception",
                               stage |-> done[j].exception, idx |-> j])
            /\ UNCHANGED <<results, failures, sample_failures, i>>
       ELSE LET tr == done[j].result[1]
            IN  /\ results' = Append(results, tr)
                /\ error' = error
                /\ IF IsFailure(tr)
                   THEN /\ failures' = failures + 1
                        /\ sample_failures' =
                              IF SampleRoom(sample_failures)
                              THEN Append(sample_failures, tr)
                              ELSE sample_failures
                        /\ IF stop
                           THEN /\ i' = claim.trials
                                /\ pc' = "after_for"
                           ELSE /\ i' = i
                                /\ pc' = "collect"
                   ELSE /\ pc' = "collect"
                        /\ UNCHANGED <<failures, sample_failures, i>>
    /\ UNCHANGED <<args, runs, max_workers, rng_commit, stop, futs, pool,
                   ret, trialLog, retLog>>

\* as_completed is exhausted: the for loop ends without break
Exhausted ==
    /\ pc = "collect"
    /\ \A k \in 1..Len(futs) : futs[k] \in yielded
    /\ pc' = "after_for"
    /\ UNCHANGED <<args, runs, locals, pool, ret, error, trialLog, retLog>>

\* lines 124-126: i += batch; if failures and stop: break
AfterFor ==
    /\ pc = "after_for"
    /\ i' = NextCursor(i)
    /\ pc' = IF EarlyStop(failures, stop) THEN "exit" ELSE "while"
    /\ UNCHANGED <<args, runs, max_workers, failures, sample_failures,
                   rng_commit, stop, results, futs, yielded, pool, ret,
                   error, trialLog, retLog>>

(***************************************************************************)
(* Leaving the with statement: ThreadPoolExecutor.__exit__ calls           *)
(* shutdown(wait=True), which cancels nothing and joins the worker         *)
(* threads; they stop only after the work queue is drained.                *)
(***************************************************************************)
\* shutdown(wait=False)
ShutdownNoWait == TRUE

ShutdownComplete ==
    /\ queue = <<>>
    /\ \A w \in Workers : worker[w] = Idle

\* dataclass ClaimResult (duration_sec, a wall-clock reading, is left out)
ClaimResult(c, f, n, samples, upper, commit) ==
    [claim |-> c, failures |-> f, trials_run |-> n,
     sample_failures |-> samples, upper95_failure_prob |-> upper,
     rng_commit |-> commit]

\* lines 128-133, after the with statement has been left normally
Return ==
    /\ pc = "exit"
    /\ ShutdownComplete
    /\ LET trials_run == Len(results)
           upper == rule_of_three_upper_bound(failures, trials_run)
       IN  ret' = Some(ClaimResult(claim, failures, trials_run, sample_failures,
                              upper, rng_commit))
    /\ retLog' = retLog \cup
          {[run |-> runs, max_workers |-> max_workers, result |-> ret'[1]]}
    /\ pc' = "returned"
    /\ UNCHANGED <<args, runs, locals, pool, error, trialLog>>

\* the with statement left by the exception of fut.result()
Raise ==
    /\ pc = "exit_exc"
    /\ ShutdownComplete
    /\ pc' = "raised"
    /\ UNCHANGED <<args, runs, locals, pool, ret, error, trialLog, retLog>>

Next ==
    \/ \E mw \in 0..MaxWorkers, cpus \in 0..MaxWorkers :
          Call(mw, cpus)
    \/ WhileTest
    \/ Submit
    \/ \E w \in Workers : WorkerStart(w)
    \/ \E w \in Workers : WorkerFinish(w)
    \/ \E j \in DOMAIN done : Yield(j)
    \/ Exhausted
    \/ AfterFor
    \/ Return
    \/ Raise

Spec == Init /\ [][Next]_vars

(***************************************************************************)
(* One call of parallel_trials whose budget exceeds the cap of             *)
(* sample_failures, for a registered generator, oracle and implementation. *)
(***************************************************************************)
InitSamples ==
    /\ ComponentsOff
    /\ gen = Off
    /\ retLog = {}
    /\ claim \in [id : ClaimIds, adversary : {"dup_heavy_small"},
                  oracle : {"sort_correctness"}, trials : {MaxSampleBudget},
                  stop_on_first_failure : BOOLEAN]
    /\ impl_name = "quicksort3"
    /\ master_seed \in MasterSeeds
    /\ LET seeds == {derive_seed(master_seed, claim.id, k) :
                       k \in 0..(claim.trials - 1)}
       IN  plugins \in [rejects : SUBSET seeds, raises : SUBSET seeds,
                        stage : {"oracle"}]
    /\ Cardinality(plugins.raises) <= MaxRaising
    /\ plugins.raises \cap plugins.rejects = {}
    /\ runs = MaxRuns - 1
    /\ pc = "idle"
    /\ FreshLocals
    /\ FreshPool
    /\ ret = Absent
    /\ error = Absent
    /\ trialLog = {}

SpecSamples == InitSamples /\ [][Next]_vars

(***************************************************************************)
(* The engine at rest, for the specifications of the other components.     *)
(***************************************************************************)
engine == <<claim, impl_name, master_seed, plugins, gen, runs, pc, locals,
            pool, ret, error, trialLog, retLog>>

EngineOff ==
    /\ claim = [id |-> "SortsCorrect@quicksort3",
                adversary |-> "dup_heavy_small",
                oracle |-> "sort_correctness",
                trials |-> 0, stop_on_first_failure |-> FALSE]
    /\ impl_name = "quicksort3"
    /\ master_seed = "seed"
    /\ plugins = [rejects |-> {}, raises |-> {}, stage |-> "gen"]
    /\ gen = Off
    /\ runs = 0
    /\ pc = "idle"
    /\ FreshLocals
    /\ FreshPool
    /\ ret = Absent
    /\ error = Absent
    /\ trialLog = {}
    /\ retLog = {}

(***************************************************************************)
(* Python values that reach a certificate, tagged with their type.  A str  *)
(* is its sequence of characters, a dict its (key, value) pairs in         *)
(* insertion order with str keys, a float is one of integral value, and a  *)
(* tuple is the list json writes it as.                                    *)
(***************************************************************************)
PyStr(s) == [t |-> "str", v |-> s]
PyInt(n) == [t |-> "int", v |-> <<n>>]
PyFloat(n) == [t |-> "float", v |-> <<n>>]
PyNone == [t |-> "None", v |-> <<>>]
PyList(xs) == [t |-> "list", v |-> xs]
PyDict(kv) == [t |-> "dict", v |-> kv]

\* d[key]
Get(d, key) ==
    d.v[CHOOSE k \in 1..Len(d.v) : d.v[k][1] = key][2]

\* the keys the certificate uses, in the order of Python's str comparison
KeyOrder ==
    <<"adversary", "alpha", "certVersion", "claims", "createdAt", "domain",
      "durationSec", "failures", "hash", "id", "kind", "machine", "name",
      "nmax", "nmin", "oracle", "params", "power", "programHash", "proofs",
      "proposition", "range", "results", "rngCommit", "trials", "trialsRun",
      "upper95FailureProb", "uri">>

KeyRank(key) == CHOOSE r \in 1..Len(KeyOrder) : KeyOrder[r] = key

\* sorted(dct.items()): the pairs by ascending key
RECURSIVE SortItems(_)
SortItems(kv) ==
    IF kv = <<>> THEN <<>>
    ELSE LET m == CHOOSE k \in 1..Len(kv) :
                     \A l \in 1..Len(kv) : KeyRank(kv[k][1]) <= KeyRank(kv[l][1])
         IN  <<kv[m]>> \o
             SortItems(SubSeq(kv, 1, m - 1) \o SubSeq(kv, m + 1, Len(kv)))

\* sort_keys = False: the pairs in insertion order
InsertionOrder(kv) == kv

\* sort_keys = True
ItemOrder(kv) == SortItems(kv)

\* the JSON escapes of a string's characters
RECURSIVE Escaped(_)
Escaped(s) ==
    IF s = <<>> THEN ""
    ELSE (IF Head(s) = "\"" THEN "\\\""
          ELSE IF Head(s) = "\\" THEN "\\\\"
          ELSE Head(s)) \o Escaped(Tail(s))

(***************************************************************************)
(* json.dumps(obj, sort_keys=True, separators=(",", ":")), as the string   *)
(* it returns.                                                             *)
(***************************************************************************)
RECURSIVE dumps(_), DumpsItems(_), DumpsPairs(_)
dumps(obj) ==
    CASE obj.t = "str" -> "\"" \o Escaped(obj.v) \o "\""
      [] obj.t = "int" -> ToString(obj.v[1])
      [] obj.t = "float" -> ToString(obj.v[1]) \o ".0"
      [] obj.t = "None" -> "null"
      [] obj.t = "list" -> "[" \o DumpsItems(obj.v) \o "]"
      [] obj.t = "dict" -> "{" \o DumpsPairs(ItemOrder(obj.v)) \o "}"

DumpsItems(xs) ==
    IF xs = <<>> THEN ""
    ELSE dumps(Head(xs)) \o
         (IF Tail(xs) = <<>> THEN "" ELSE "," \o DumpsItems(Tail(xs)))

DumpsPairs(kv) ==
    IF kv = <<>> THEN ""
    ELSE "\"" \o Head(kv)[1] \o "\":" \o dumps(Head(kv)[2]) \o
         (IF Tail(kv) = <<>> THEN "" ELSE "," \o DumpsPairs(Tail(kv)))

(***************************************************************************)
(* make_certificate, lines 136-165.  A claim result is the record of the   *)
(* Python values of a ClaimResult and its Claim; now is what time.time()   *)
(* returns.  A BeliefCertificate is the record of its six fields.          *)
(***************************************************************************)
\* a proof entry that leaves the artifact's hash out
ProofEntryWithoutHash(p) ==
    PyDict(<< <<"kind", p.kind>>, <<"uri", p.uri>>, <<"hash", PyNone>> >>)

ProofEntry(p) ==
    PyDict(<< <<"kind", p.kind>>, <<"uri", p.uri>>, <<"hash", p.hash>> >>)

ClaimEntry(cr) ==
    PyDict(<< <<"id", cr.claim.id>>,
              <<"proposition", cr.claim.proposition>>,
              <<"domain", PyDict(<< <<"name", cr.claim.domain.name>>,
                                    <<"params", cr.claim.domain.params>> >>)>>,
              <<"adversary", cr.claim.adversary>>,
              <<"oracle", cr.claim.oracle>>,
              <<"power", PyDict(<< <<"alpha", cr.claim.power_alpha>>,
                                   <<"trials", cr.claim.trials>> >>)>>,
              <<"results",
                PyDict(<< <<"failures", cr.failures>>,
                          <<"trialsRun", cr.trials_run>>,
                          <<"upper95FailureProb", cr.upper95_failure_prob>>,
                          <<"rngCommit", cr.rng_commit>>,
                          <<"durationSec", cr.duration_sec>> >>)>> >>)

\* proofs_out: the proofs of the claims, claim after claim
RECURSIVE ProofsOut(_)
ProofsOut(crs) ==
    IF crs = <<>> THEN <<>>
    ELSE [k \in 1..Len(Head(crs).claim.proofs) |->
             ProofEntry(Head(crs).claim.proofs[k])]
         \o ProofsOut(Tail(crs))

make_certificate(program_hash, machine, claim_results, now) ==
    [certVersion |-> PyStr(<<"1", ".", "0">>),
     programHash |-> program_hash,
     machine |-> machine,
     createdAt |-> PyFloat(now),
     claims |-> PyList([k \in 1..Len(claim_results) |->
                           ClaimEntry(claim_results[k])]),
     proofs |-> PyList(ProofsOut(claim_results))]

\* dataclasses.asdict(cert): the fields in declaration order
asdict(cert) ==
    PyDict(<< <<"certVersion", cert.certVersion>>,
              <<"programHash", cert.programHash>>,
              <<"machine", cert.machine>>,
              <<"createdAt", cert.createdAt>>,
              <<"claims", cert.claims>>,
              <<"proofs", cert.proofs>> >>)

\* certificate_hash, lines 167-169
certificate_hash(cert) == "0x" \o dumps(asdict(cert))

\* cli.py:45, BeliefCertificate(certVersion=data["certVersion"], ...)
FromDict(data) ==
    [certVersion |-> Get(data, "certVersion"),
     programHash |-> Get(data, "programHash"),
     machine |-> Get(data, "machine"),
     createdAt |-> Get(data, "createdAt"),
     claims |-> Get(data, "claims"),
     proofs |-> Get(data, "proofs")]

\* save_certificate then load_certificate: json.dump(sort_keys=True) writes
\* every dict by ascending key and json.load keeps the order of the file
RECURSIVE Reloaded(_)
Reloaded(obj) ==
    CASE obj.t = "list" -> PyList([k \in 1..Len(obj.v) |-> Reloaded(obj.v[k])])
      [] obj.t = "dict" ->
            PyDict([k \in 1..Len(obj.v) |->
                       <<SortItems(obj.v)[k][1],
                         Reloaded(SortItems(obj.v)[k][2])>>])
      [] OTHER -> obj

(***************************************************************************)
(* Certificates: make_certificate builds one from claim results, and a     *)
(* second certificate is the same inputs built again, the first one saved  *)
(* and loaded (cmd_verify), or a certificate with one mapping in another   *)
(* insertion order or one field of another value; certificate_hash is      *)
(* applied to both.                                                        *)
(***************************************************************************)
\* largest number of claim results in a certificate
MaxCertClaims == 2
\* readings of time.time()
MaxTime == 2

\* a claim that passed, with two proof artifacts
CrPass ==
    [claim |->
        [id |-> PyStr(<<"A">>), proposition |-> PyStr(<<"p">>),
         domain |-> [name |-> PyStr(<<"d">>),
                     params |-> PyDict(<< <<"nmin", PyInt(0)>>,
                                          <<"nmax", PyInt(2)>>,
                                          <<"range", PyList(<<PyInt(0),
                                                              PyInt(9)>>)>> >>)],
         adversary |-> PyStr(<<"g">>), oracle |-> PyStr(<<"o">>),
         power_alpha |-> PyFloat(1), trials |-> PyInt(3),
         proofs |-> << [kind |-> PyStr(<<"T">>), uri |-> PyStr(<<"u">>),
                        hash |-> PyNone],
                       [kind |-> PyStr(<<"S">>), uri |-> PyStr(<<"v">>),
                        hash |-> PyStr(<<"h">>)] >>],
     failures |-> PyInt(0), trials_run |-> PyInt(3),
     upper95_failure_prob |-> PyFloat(1),
     rng_commit |-> PyStr(<<"s", "|", "A", "|", "q">>),
     duration_sec |-> PyFloat(2)]

\* a refuted claim, with one proof artifact
CrFail ==
    [claim |->
        [id |-> PyStr(<<"B">>), proposition |-> PyStr(<<"p", "\"">>),
         domain |-> [name |-> PyStr(<<"d">>), params |-> PyDict(<<>>)],
         adversary |-> PyStr(<<"g">>), oracle |-> PyStr(<<"o">>),
         power_alpha |-> PyFloat(1), trials |-> PyInt(3),
         proofs |-> << [kind |-> PyStr(<<"T">>), uri |-> PyStr(<<"w">>),
                        hash |-> PyNone] >>],
     failures |-> PyInt(1), trials_run |-> PyInt(2),
     upper95_failure_prob |-> PyNone,
     rng_commit |-> PyStr(<<"s", "|", "B", "|", "q">>),
     duration_sec |-> PyFloat(1)]

ClaimResultSeqs ==
    UNION {[1..n -> {CrPass, CrFail}] : n \in 0..MaxCertClaims}

ProgramHashes == {PyStr(<<"0", "x", "a">>)}
Machines == {PyStr(<<"m">>), PyStr(<<"m", "\"">>)}

\* values a field is changed to
FieldValues ==
    <<PyStr(<<"a">>), PyStr(<<"1">>), PyStr(<<"a", "\"">>),
      PyStr(<<"\\", "a">>), PyInt(1), PyFloat(1), PyNone>>

\* a == b for two Python values
SameValue(a, b) == a.t = b.t /\ a.v = b.v

\* the paths from obj to its leaves; a path gives the position taken in
\* each list or dict on the way
RECURSIVE LeafPaths(_)
LeafPaths(obj) ==
    CASE obj.t = "list" ->
            UNION {{<<k>> \o q : q \in LeafPaths(obj.v[k])} :
                      k \in 1..Len(obj.v)}
      [] obj.t = "dict" ->
            UNION {{<<k>> \o q : q \in LeafPaths(obj.v[k][2])} :
                      k \in 1..Len(obj.v)}
      [] OTHER -> {<<>>}

\* the paths from obj to its dicts of two keys or more
RECURSIVE DictPaths(_)
DictPaths(obj) ==
    CASE obj.t = "list" ->
            UNION {{<<k>> \o q : q \in DictPaths(obj.v[k])} :
                      k \in 1..Len(obj.v)}
      [] obj.t = "dict" ->
            (IF Len(obj.v) > 1 THEN {<<>>} ELSE {}) \cup
            UNION {{<<k>> \o q : q \in DictPaths(obj.v[k][2])} :
                      k \in 1..Len(obj.v)}
      [] OTHER -> {}

RECURSIVE At(_, _)
At(obj, path) ==
    IF path = <<>> THEN obj
    ELSE IF obj.t = "dict" THEN At(obj.v[Head(path)][2], Tail(path))
    ELSE At(obj.v[Head(path)], Tail(path))

\* obj with x in the place path leads to
RECURSIVE Changed(_, _, _)
Changed(obj, path, x) ==
    IF path = <<>> THEN x
    ELSE IF obj.t = "dict"
    THEN PyDict([obj.v EXCEPT ![Head(path)] =
                    <<@[1], Changed(@[2], Tail(path), x)>>])
    ELSE PyList([obj.v EXCEPT ![Head(path)] = Changed(@, Tail(path), x)])

\* two other insertion orders of a dict
Rotated(d) == PyDict(Tail(d.v) \o <<Head(d.v)>>)
Reversed(d) == PyDict([k \in 1..Len(d.v) |-> d.v[Len(d.v) + 1 - k]])

InitCert ==
    /\ EngineOff
    /\ seeding = Off
    /\ reader = Off
    /\ belief = Off
    /\ sweep = Off
    /\ certs \in [program_hash : ProgramHashes, machine : Machines,
                  claim_results : ClaimResultSeqs,
                  cert : {<<>>}, other : {<<>>}, how : {"none"},
                  digests : {<<>>}]

\* cert = make_certificate(program_hash, platform.node(), results)
MakeCertificate(now) ==
    /\ certs # Off
    /\ certs.cert = <<>>
    /\ certs' = [certs EXCEPT
                   !.cert = <<make_certificate(certs.program_hash,
                                               certs.machine,
                                               certs.claim_results, now)>>]
    /\ UNCHANGED <<engine, seeding, reader, belief, sweep>>

\* the second certificate
Second(how, cert) ==
    /\ certs # Off
    /\ certs.cert # <<>>
    /\ certs.other = <<>>
    /\ certs' = [certs EXCEPT !.other = <<cert>>, !.how = how]
    /\ UNCHANGED <<engine, seeding, reader, belief, sweep>>

\* the same in-memory certificate once more
Same == certs # Off /\ certs.cert # <<>> /\ Second("same", certs.cert[1])

\* make_certificate called again with the same arguments
Rebuild(now) ==
    /\ certs # Off
    /\ Second("rebuilt", make_certificate(certs.program_hash, certs.machine,
                                          certs.claim_results, now))

\* cmd_verify: the certificate saved by cmd_compile, loaded again
Reload ==
    /\ certs # Off
    /\ certs.cert # <<>>
    /\ Second("reloaded", FromDict(Reloaded(asdict(certs.cert[1]))))

\* equal field values, one mapping built in another insertion order
Reorder ==
    /\ certs # Off
    /\ certs.cert # <<>>
    /\ \E path \in DictPaths(asdict(certs.cert[1])) :
          \E d \in {Rotated(At(asdict(certs.cert[1]), path)),
                    Reversed(At(asdict(certs.cert[1]), path))} :
             Second("reordered",
                    FromDict(Changed(asdict(certs.cert[1]), path, d)))

\* one field of another value
Edit ==
    /\ certs # Off
    /\ certs.cert # <<>>
    /\ \E path \in LeafPaths(asdict(certs.cert[1])),
          n \in 1..Len(FieldValues) :
          /\ ~SameValue(At(asdict(certs.cert[1]), path), FieldValues[n])
          /\ Second("edited",
                    FromDict(Changed(asdict(certs.cert[1]), path,
                                     FieldValues[n])))

\* certificate_hash(cert) of both certificates
HashBoth ==
    /\ certs # Off
    /\ certs.other # <<>>
    /\ certs.digests = <<>>
    /\ certs' = [certs EXCEPT
                   !.digests = <<certificate_hash(certs.cert[1]),
                                 certificate_hash(certs.other[1])>>]
    /\ UNCHANGED <<engine, seeding, reader, belief, sweep>>

NextCert ==
    \/ \E now \in 1..MaxTime : MakeCertificate(now)
    \/ Same
    \/ \E now \in 1..MaxTime : Rebuild(now)
    \/ Reload
    \/ Reorder
    \/ Edit
    \/ HashBoth

SpecCert == InitCert /\ [][NextCert]_vars

(***************************************************************************)
(* derive_seed called on two triples (master_seed, namespace, idx).        *)
(***************************************************************************)
\* largest trial index a seed is derived for
MaxSeedIdx == 2

\* master seeds and namespaces (claim ids): any string, the delimiter of
\* derive_seed included
SeedStrings == {"a", "b", "c", "a|b", "b|c"}

SeedTriples == SeedStrings \X SeedStrings \X (0..MaxSeedIdx)

InitSeed ==
    /\ EngineOff
    /\ certs = Off
    /\ reader = Off
    /\ belief = Off
    /\ sweep = Off
    /\ seeding \in [triples : SeedTriples \X SeedTriples, seeds : {<<>>}]

\* the next call: seed = derive_seed(master_seed, namespace, idx)
DeriveSeed ==
    /\ seeding # Off
    /\ Len(seeding.seeds) < Len(seeding.triples)
    /\ LET t == seeding.triples[Len(seeding.seeds) + 1]
       IN  seeding' = [seeding EXCEPT
                         !.seeds = Append(@, derive_seed(t[1], t[2], t[3]))]
    /\ UNCHANGED <<engine, certs, reader, belief, sweep>>

NextSeed == DeriveSeed

SpecSeed == InitSeed /\ [][NextSeed]_vars

(***************************************************************************)
(* The certificate file and its digests: sha256_hex reads the file chunk   *)
(* by chunk, certificate_hash_bytes reads it whole.  SHA-256 is taken as   *)
(* injective: the state of h is the bytes it was updated with, and a       *)
(* digest is "0x" and the hexadecimal digits of these bytes.               *)
(***************************************************************************)
\* longest certificate file
MaxFileLen == 4
\* bytes f.read asks for at a time; stands for the 8192 of line 19
ChunkSize == 2

Bytes == {0, 10, 255}

Files == UNION {[1..n -> Bytes] : n \in 0..MaxFileLen}

HexDigits ==
    <<"0", "1", "2", "3", "4", "5", "6", "7",
      "8", "9", "a", "b", "c", "d", "e", "f">>

RECURSIVE hexdigest(_)
hexdigest(h) ==
    IF h = <<>> THEN ""
    ELSE HexDigits[(Head(h) \div 16) + 1] \o HexDigits[(Head(h) % 16) + 1]
         \o hexdigest(Tail(h))

\* f.read(n) at position pos: the next n bytes, fewer at the end of the file
Read(file, pos, n) == SubSeq(file, pos + 1, Min(pos + n, Len(file)))

\* a loop that ends at the first chunk shorter than asked for
LoopContinuesOnFullChunk(chunk) == Len(chunk) = ChunkSize

\* iter(callable, b""): the loop goes on until a read returns b""
LoopContinues(chunk) == chunk # <<>>

\* certificate_hash_bytes(cert_path)
certificate_hash_bytes(file) == "0x" \o hexdigest(Read(file, 0, Len(file)))

InitFile ==
    /\ EngineOff
    /\ seeding = Off
    /\ certs = Off
    /\ belief = Off
    /\ sweep = Off
    /\ reader \in [file : Files, pc : {"closed"}, pos : {0}, h : {<<>>},
                   digests : {<<>>}, whole : {<<>>}, changed : {FALSE}]

\* sha256_hex(path), lines 17-18: h = hashlib.sha256(), open(path, "rb");
\* the first call is cmd_compile's, the second cmd_verify's
Sha256HexOpen ==
    /\ reader # Off
    /\ reader.pc = "closed"
    /\ Len(reader.digests) < 2
    /\ reader' = [reader EXCEPT !.pc = "reading", !.pos = 0, !.h = <<>>]
    /\ UNCHANGED <<engine, seeding, certs, belief, sweep>>

\* lines 19-20: one more chunk read and fed to h
Sha256HexUpdate ==
    /\ reader # Off
    /\ reader.pc = "reading"
    /\ LET chunk == Read(reader.file, reader.pos, ChunkSize)
       IN  /\ LoopContinues(chunk)
           /\ reader' = [reader EXCEPT !.pos = @ + Len(chunk),
                                       !.h = @ \o chunk]
    /\ UNCHANGED <<engine, seeding, certs, belief, sweep>>

\* lines 19 and 21: the loop ends and the digest is returned
Sha256HexReturn ==
    /\ reader # Off
    /\ reader.pc = "reading"
    /\ LET chunk == Read(reader.file, reader.pos, ChunkSize)
       IN  /\ ~LoopContinues(chunk)
           /\ reader' = [reader EXCEPT
                           !.pc = "closed",
                           !.digests = Append(@, "0x" \o hexdigest(reader.h))]
    /\ UNCHANGED <<engine, seeding, certs, belief, sweep>>

\* the file as written is hashed whole
CertificateHashBytes ==
    /\ reader # Off
    /\ reader.pc = "closed"
    /\ ~reader.changed
    /\ reader.whole = <<>>
    /\ reader' = [reader EXCEPT
                    !.whole = <<certificate_hash_bytes(reader.file)>>]
    /\ UNCHANGED <<engine, seeding, certs, belief, sweep>>

\* between cmd_compile and cmd_verify one byte of the file gets another value
ChangeByte ==
    /\ reader # Off
    /\ reader.pc = "closed"
    /\ Len(reader.digests) = 1
    /\ ~reader.changed
    /\ \E k \in 1..Len(reader.file), b \in Bytes :
          /\ b # reader.file[k]
          /\ reader' = [reader EXCEPT !.file[k] = b, !.changed = TRUE]
    /\ UNCHANGED <<engine, seeding, certs, belief, sweep>>

NextFile ==
    \/ Sha256HexOpen
    \/ Sha256HexUpdate
    \/ Sha256HexReturn
    \/ CertificateHashBytes
    \/ ChangeByte

SpecFile == InitFile /\ [][NextFile]_vars

(***************************************************************************)
(* BetaBernoulliClaim: a Beta(alpha, beta) posterior updated outcome by    *)
(* outcome.  alpha and beta are floats of integral value; the quotient     *)
(* posterior_mean returns is kept as its numerator and denominator.        *)
(***************************************************************************)
\* most update calls on one claim
MaxHistory == 10
\* largest prior parameter
MaxPrior == 2

\* the outcomes of line 294: 1 if qs < ms else 0
Outcomes == {0, 1}

\* a branch that counts a 0 as the success
IsSuccessInverted(outcome) == outcome = 0

\* line 108: if outcome == 1
IsSuccess(outcome) == outcome = 1

\* lines 113-114
posterior_mean(b) == [num |-> b.alpha, den |-> b.alpha + b.beta]

\* x == y for two quotients
SameQuotient(x, y) == x.num * y.den = y.num * x.den

InitBelief ==
    /\ EngineOff
    /\ seeding = Off
    /\ certs = Off
    /\ reader = Off
    /\ sweep = Off
    /\ \E a0 \in 1..MaxPrior, b0 \in 1..MaxPrior :
          belief = [a0 |-> a0, b0 |-> b0, alpha |-> a0, beta |-> b0,
                    history |-> <<>>, calls |-> <<>>, mean |-> <<>>]

\* claim.update(outcome), lines 106-111; calls logs the outcomes passed
Update(outcome) ==
    /\ belief # Off
    /\ Len(belief.calls) < MaxHistory
    /\ belief' = [belief EXCEPT
                    !.history = Append(@, outcome),
                    !.alpha = IF IsSuccess(outcome) THEN @ + 1 ELSE @,
                    !.beta = IF IsSuccess(outcome) THEN @ ELSE @ + 1,
                    !.calls = Append(@, outcome),
                    !.mean = <<>>]
    /\ UNCHANGED <<engine, seeding, certs, reader, sweep>>

\* claim.posterior_mean(); mean holds what the last call returned
PosteriorMean ==
    /\ belief # Off
    /\ belief.mean = <<>>
    /\ belief' = [belief EXCEPT !.mean = <<posterior_mean(belief)>>]
    /\ UNCHANGED <<engine, seeding, certs, reader, sweep>>

NextBelief ==
    \/ \E outcome \in Outcomes : Update(outcome)
    \/ PosteriorMean

SpecBelief == InitBelief /\ [][NextBelief]_vars

(***************************************************************************)
(* The sorting plugins and their oracle, and the demo claim evaluated      *)
(* against them.  random.Random(seed) is a deterministic source, so what   *)
(* dup_heavy_small generates is a function of the seed: gen holds it, any  *)
(* list of nmin..nmax values of the range for each seed of the budget.     *)
(***************************************************************************)
\* nmax of the domain: the longest generated list (nmin is 0)
MaxListLen == 3
\* the range of the domain is 0..MaxValue
MaxValue == 1
\* largest trial budget of the sorting claim
MaxSortTrials == 2

\* duplicates_biased(rng, params), lines 7-10: the lists it can return
Lists == UNION {[1..n -> 0..MaxValue] : n \in 0..MaxListLen}

\* a[len(a)//2]
Pivot(a) == a[(Len(a) \div 2) + 1]

\* plugins.py lines 5-11
RECURSIVE buggy_quicksort(_)
buggy_quicksort(a) ==
    IF Len(a) <= 1 THEN a
    ELSE LET pivot == Pivot(a)
             left == SelectSeq(a, LAMBDA x : x < pivot)
             right == SelectSeq(a, LAMBDA x : x > pivot)
         IN  buggy_quicksort(left) \o <<pivot>> \o buggy_quicksort(right)

\* plugins.py lines 13-20
RECURSIVE quicksort_3way(_)
quicksort_3way(a) ==
    IF Len(a) <= 1 THEN a
    ELSE LET pivot == Pivot(a)
             lt == SelectSeq(a, LAMBDA x : x < pivot)
             eq == SelectSeq(a, LAMBDA x : x = pivot)
             gt == SelectSeq(a, LAMBDA x : x > pivot)
         IN  quicksort_3way(lt) \o eq \o quicksort_3way(gt)

\* the registry with the two sorting implementations under each other's name
ImplSwapped(name, a) ==
    IF name = "quicksort3" THEN buggy_quicksort(a) ELSE quicksort_3way(a)

\* IMPL_REGISTRY[name](a, rng)
Impl(name, a) ==
    IF name = "quicksort3" THEN quicksort_3way(a) ELSE buggy_quicksort(a)

\* oracles.py line 7
is_sorted(a) == \A k \in 1..(Len(a) - 1) : a[k] <= a[k + 1]

\* collections.Counter(a): the values of a with their numbers of occurrences
Counter(a) ==
    [x \in {a[k] : k \in 1..Len(a)} |->
        Cardinality({k \in 1..Len(a) : a[k] = x})]

\* a comparison of the values that occur, whatever their numbers
is_permutation_of_sets(a, b) == DOMAIN Counter(a) = DOMAIN Counter(b)

\* oracles.py line 10
is_permutation(a, b) == Counter(a) = Counter(b)

\* oracles.py line 14; out is a list for both implementations
sort_correctness_oracle(inp, out) == is_sorted(out) /\ is_permutation(inp, out)

\* the seeds on which the oracle rejects what impl_name returns
Rejects(name, g) ==
    {seed \in DOMAIN g : ~sort_correctness_oracle(g[seed], Impl(name, g[seed]))}

\* cli.py lines 8-10, 20 and 31: the sorting claim, evaluated once against
\* one of the two implementations; no trial raises
InitSort ==
    /\ ComponentsOff
    /\ retLog = {}
    /\ claim \in [id : ClaimIds, adversary : {"dup_heavy_small"},
                  oracle : {"sort_correctness"}, trials : 0..MaxSortTrials,
                  stop_on_first_failure : BOOLEAN]
    /\ impl_name \in {"quicksort3", "buggy_quicksort"}
    /\ master_seed \in MasterSeeds
    /\ gen \in [{derive_seed(master_seed, claim.id, k) :
                    k \in 0..(claim.trials - 1)} -> Lists]
    /\ plugins = [rejects |-> Rejects(impl_name, gen), raises |-> {},
                  stage |-> "gen"]
    /\ runs = MaxRuns - 1
    /\ pc = "idle"
    /\ FreshLocals
    /\ FreshPool
    /\ ret = Absent
    /\ error = Absent
    /\ trialLog = {}

NextSort ==
    \/ \E mw \in 0..MaxWorkers, cpus \in 0..MaxWorkers :
          Call(mw, cpus)
    \/ WhileTest
    \/ Submit
    \/ \E w \in Workers : WorkerStart(w)
    \/ \E w \in Workers : WorkerFinish(w)
    \/ \E j \in DOMAIN done : Yield(j)
    \/ Exhausted
    \/ AfterFor
    \/ Return

SpecSort == InitSort /\ [][NextSort]_vars

(***************************************************************************)
(* One call of parallel_trials under fair scheduling: the calling thread   *)
(* keeps taking its next step, a free worker thread takes queued work and  *)
(* a running trial finishes.                                               *)
(***************************************************************************)
InitLive ==
    /\ ComponentsOff
    /\ gen = Off
    /\ retLog = {}
    /\ claim \in Claim
    /\ impl_name \in Impls
    /\ Lookup(claim, impl_name)
    /\ master_seed \in MasterSeeds
    /\ LET seeds == {derive_seed(master_seed, claim.id, k) :
                       k \in 0..(claim.trials - 1)}
       IN  plugins \in [rejects : SUBSET seeds, raises : SUBSET seeds,
                        stage : {"gen", "impl", "oracle"}]
    /\ Cardinality(plugins.raises) <= MaxRaising
    /\ plugins.raises \cap plugins.rejects = {}
    /\ plugins.raises = {} => plugins.stage = "gen"
    /\ runs = MaxRuns - 1
    /\ pc = "idle"
    /\ FreshLocals
    /\ FreshPool
    /\ ret = Absent
    /\ error = Absent
    /\ trialLog = {}

\* the steps of the thread that called parallel_trials
MainThread ==
    \/ WhileTest
    \/ Submit
    \/ \E j \in DOMAIN done : Yield(j)
    \/ Exhausted
    \/ AfterFor
    \/ Return
    \/ Raise

SpecLive ==
    /\ InitLive
    /\ [][Next]_vars
    /\ WF_vars(MainThread)
    /\ \A w \in Workers : WF_vars(WorkerStart(w)) /\ WF_vars(WorkerFinish(w))

(***************************************************************************)
(* The distinctness sweep of the demo, aletheia_epicompiler.run lines      *)
(* 317-335: for every candidate rho the gaps ms - qs of its trials are     *)
(* averaged, then the candidates are scanned in order for the first        *)
(* negative average.  A candidate is in thousandths; an average is kept as *)
(* numerator and denominator; total accumulates ms - qs beside the loop.   *)
(***************************************************************************)
\* trials per candidate; stands for the 120 of line 322
SweepTrials == 1
\* largest comparison count compare_counts returns
MaxCount == 1

\* line 317
rhos == <<1, 5, 10, 20, 30, 40, 50, 100>>

RECURSIVE sum(_)
sum(xs) == IF xs = <<>> THEN 0 ELSE Head(xs) + sum(Tail(xs))

\* a scan that also stops at an average of 0
CrossesOrTouches(gap) == gap.num * gap.den <= 0

\* line 333: if gap < 0
Crosses(gap) == gap.num * gap.den < 0

InitSweep ==
    /\ EngineOff
    /\ seeding = Off
    /\ certs = Off
    /\ reader = Off
    /\ belief = Off
    /\ sweep = [pc |-> "trials", k |-> 1, gaps |-> <<>>, avg_gap |-> <<>>,
                sel |-> 0, rho_threshold |-> Absent,
                total |-> 0, totals |-> <<>>]

\* lines 323-326: one trial of the current candidate
SweepTrial(qs, ms) ==
    /\ sweep # Off
    /\ sweep.pc = "trials"
    /\ Len(sweep.gaps) < SweepTrials
    /\ sweep' = [sweep EXCEPT !.gaps = Append(@, ms - qs),
                              !.total = @ + (ms - qs)]
    /\ UNCHANGED <<engine, seeding, certs, reader, belief>>

\* lines 327-328 and 320-322: the average is appended and the next
\* candidate begins; after the last one, lines 331-332
SweepAverage ==
    /\ sweep # Off
    /\ sweep.pc = "trials"
    /\ Len(sweep.gaps) = SweepTrials
    /\ sweep' = [sweep EXCEPT
                   !.avg_gap = Append(@, [num |-> sum(sweep.gaps),
                                          den |-> Len(sweep.gaps)]),
                   !.totals = Append(@, sweep.total),
                   !.total = 0,
                   !.gaps = <<>>,
                   !.k = IF sweep.k < Len(rhos) THEN @ + 1 ELSE @,
                   !.pc = IF sweep.k < Len(rhos) THEN "trials" ELSE "scan",
                   !.sel = IF sweep.k < Len(rhos) THEN 0 ELSE 1]
    /\ UNCHANGED <<engine, seeding, certs, reader, belief>>

\* lines 332-335: one iteration of for rho, gap in zip(rhos, avg_gap)
SweepScan ==
    /\ sweep # Off
    /\ sweep.pc = "scan"
    /\ sweep' =
          IF sweep.sel > Min(Len(rhos), Len(sweep.avg_gap))
          THEN [sweep EXCEPT !.pc = "done"]
          ELSE IF Crosses(sweep.avg_gap[sweep.sel])
          THEN [sweep EXCEPT !.rho_threshold = Some(rhos[sweep.sel]),
                             !.pc = "done"]
          ELSE [sweep EXCEPT !.sel = @ + 1]
    /\ UNCHANGED <<engine, seeding, certs, reader, belief>>

NextSweep ==
    \/ \E qs \in 0..MaxCount, ms \in 0..MaxCount : SweepTrial(qs, ms)
    \/ SweepAverage
    \/ SweepScan

SpecSweep == InitSweep /\ [][NextSweep]_vars

(***************************************************************************)
(* Derived state.                                                          *)
(***************************************************************************)
\* the trials handed to the executor in the current call
Dispatched ==
    {queue[k] : k \in 1..Len(queue)}
       \cup {worker[w][1] : w \in {v \in Workers : worker[v] # Idle}}
       \cup DOMAIN done

\* the dispatched trials whose run_one returned a TrialResult
Completed == {j \in DOMAIN done : done[j].exception = None}

Returned == pc = "returned"

BatchOf(j) == j \div batch

(***************************************************************************)
(* C1.  When parallel_trials returns, trials_run is the number of          *)
(* dispatched trials that ran to completion and failures the number of     *)
(* those whose outcome has passed = FALSE: no completed outcome is         *)
(* dropped, the batch in which the early stop triggered included.          *)
(***************************************************************************)
C1_ExactAccounting ==
    Returned =>
       /\ ret[1].trials_run = Cardinality(Completed)
       /\ ret[1].failures =
             Cardinality({j \in Completed : ~done[j].result[1].passed})

C3_SeedPerIndex ==
    /\ \A a \in trialLog : a.seed = derive_seed(master_seed, claim.id, a.idx)
    /\ \A a, b \in trialLog :
          a.idx = b.idx => (a.seed = b.seed /\ a.outcome = b.outcome)
    /\ \A k \in 1..Len(results) : \A a \in trialLog :
          a.idx = results[k].idx =>
             a.outcome = (IF results[k].passed THEN "pass" ELSE "fail")

\* the same failing index was run in both calls, at different positions of
\* the completion order
C3_Witness ==
    \E a, b \in trialLog :
       /\ a.run = 1 /\ b.run = 2
       /\ a.idx = b.idx
       /\ a.order # b.order
       /\ a.outcome = "fail" /\ b.outcome = "fail"

(***************************************************************************)
(* C4.  With stop_on_first_failure = TRUE, once a failure has been         *)
(* observed no trial of a batch after the batch of the first observed      *)
(* failure is dispatched.                                                  *)
(***************************************************************************)
C4_NoBatchAfterFailure ==
    (claim.stop_on_first_failure /\ failures > 0) =>
       \A j \in Dispatched : BatchOf(j) <= BatchOf(sample_failures[1].idx)

\* a budget of several batches is cut after its first batch
C4_Witness ==
    /\ Returned
    /\ claim.stop_on_first_failure
    /\ failures > 0
    /\ claim.trials > batch
    /\ BatchOf(sample_failures[1].idx) = 0
    /\ Dispatched = 0..(batch - 1)

(***************************************************************************)
(* C5.  After the early stop the dispatched trials of the current batch    *)
(* are not cancelled: parallel_trials returns only when every dispatched   *)
(* trial has finished.                                                     *)
(***************************************************************************)
C5_ReturnsAfterAllFinished ==
    Returned =>
       /\ queue = <<>>
       /\ \A w \in Workers : worker[w] = Idle
       /\ Dispatched = DOMAIN done
       /\ \A k \in 1..Len(futs) : futs[k] \in DOMAIN done

\* the early stop left a trial in flight, which finished before the return
C5_Witness ==
    /\ Returned
    /\ claim.stop_on_first_failure
    /\ failures > 0
    /\ Cardinality(DOMAIN done) > Len(results)

(***************************************************************************)
(* C6.  A trial in which the generator, the implementation or the oracle   *)
(* raises does not abort parallel_trials: once observed, it is an outcome  *)
(* of results with passed = FALSE and the error in details.                *)
(***************************************************************************)
C6_TrialErrorAbsorbed ==
    \A j \in yielded :
       done[j].exception # None =>
          /\ error = Absent
          /\ \E k \in 1..Len(results) :
                /\ results[k].idx = j
                /\ ~results[k].passed
                /\ results[k].details # {}

(***************************************************************************)
(* C7.  If claim.adversary, claim.oracle or impl_name is not registered,   *)
(* parallel_trials raises before any trial is dispatched or run and        *)
(* returns no ClaimResult.                                                 *)
(***************************************************************************)
Unregistered ==
    \/ claim.adversary \notin GEN_REGISTRY
    \/ claim.oracle \notin ORACLE_REGISTRY
    \/ impl_name \notin IMPL_REGISTRY

C7_UnknownCapabilityAborts ==
    (Unregistered /\ runs > 0) =>
       /\ pc = "raised"
       /\ error # Absent
       /\ error[1].type = "KeyError"
       /\ ret = Absent
       /\ Dispatched = {}
       /\ trialLog = {}

\* only the implementation is unregistered
C7_Witness ==
    /\ pc = "raised"
    /\ claim.adversary \in GEN_REGISTRY
    /\ claim.oracle \in ORACLE_REGISTRY
    /\ impl_name \notin IMPL_REGISTRY
    /\ claim.trials > 0

C9_StopsAtFirstFailure ==
    (Returned /\ claim.stop_on_first_failure /\ ret[1].failures > 0) =>
       /\ ret[1].trials_run = Len(results)
       /\ ~results[Len(results)].passed
       /\ \A k \in 1..(Len(results) - 1) : results[k].passed

\* the first failure is observed after some passes and before the budget
\* is used up
C9_Witness ==
    /\ Returned
    /\ claim.stop_on_first_failure
    /\ ret[1].failures > 0
    /\ ret[1].trials_run > 1
    /\ ret[1].trials_run < claim.trials

(***************************************************************************)
(* C10.  upper95_failure_prob of a returned result is 3/trials_run when    *)
(* failures = 0 and trials_run > 0, and None when failures > 0.            *)
(***************************************************************************)
C10_RuleOfThree ==
    Returned =>
       /\ (ret[1].failures = 0 /\ ret[1].trials_run > 0) =>
             ret[1].upper95_failure_prob = <<3, ret[1].trials_run>>
       /\ ret[1].failures > 0 => ret[1].upper95_failure_prob = <<>>

C10_Witness ==
    /\ Returned
    /\ ret[1].failures = 0
    /\ ret[1].trials_run = claim.trials
    /\ claim.trials > batch
    /\ ret[1].upper95_failure_prob = <<3, claim.trials>>

(***************************************************************************)
(* C11.  In every reachable state sample_failures holds at most 5          *)
(* outcomes, each an aggregated outcome with passed = FALSE, in the order  *)
(* they were observed and none twice, and its length is min(5, failures);  *)
(* a returned result with failures > 0 has a failing sample_failures[0].   *)
(***************************************************************************)
\* the failing outcomes of results, in the order of results
FailingOf(rs) == SelectSeq(rs, LAMBDA t : ~t.passed)

C11_SampleFailures ==
    /\ Len(sample_failures) <= 5
    /\ Len(sample_failures) = Min(5, failures)
    /\ sample_failures = SubSeq(FailingOf(results), 1, Len(sample_failures))
    /\ \A k \in 1..Len(sample_failures) :
          /\ ~sample_failures[k].passed
          /\ \E r \in 1..Len(results) : results[r] = sample_failures[k]
    /\ \A k, l \in 1..Len(sample_failures) :
          k # l => sample_failures[k].idx # sample_failures[l].idx
    /\ (Returned /\ ret[1].failures > 0) =>
          /\ ret[1].sample_failures # <<>>
          /\ ~ret[1].sample_failures[1].passed

\* a sixth failure is observed with the list full, and the samples are not
\* in index order
C11_Witness ==
    /\ Returned
    /\ ret[1].failures > 5
    /\ Len(ret[1].sample_failures) = 5
    /\ ret[1].sample_failures[1].idx > ret[1].sample_failures[2].idx

(***************************************************************************)
(* C12.  rng_commit is determined by (master_seed, claim.id, impl_name)    *)
(* alone: every call returns the digest of master_seed|claim.id|impl_name, *)
(* whatever the budget, the stop setting, the pool size, the completion    *)
(* order and the outcomes, so two calls with the same triple agree.        *)
(***************************************************************************)
C12_CommitOfTriple ==
    /\ \A r \in retLog :
          r.result.rng_commit =
             master_seed \o "|" \o claim.id \o "|" \o impl_name
    /\ \A a, b \in retLog : a.result.rng_commit = b.result.rng_commit

\* two calls with different pool sizes that observed different outcomes
C12_Witness ==
    \E a, b \in retLog :
       /\ a.run # b.run
       /\ a.max_workers # b.max_workers
       /\ a.result.trials_run # b.result.trials_run
       /\ a.result.rng_commit = b.result.rng_commit

(***************************************************************************)
(* C13.  derive_seed is a collision-resistant function of its three        *)
(* inputs: two triples (master_seed, namespace, idx) that differ in a      *)
(* component are hashed from different byte strings and get different      *)
(* seeds; equal triples get equal seeds.                                   *)
(***************************************************************************)
C13_SeedInjective ==
    (seeding # Off /\ Len(seeding.seeds) = 2) =>
       ((seeding.triples[1] = seeding.triples[2])
           <=> (seeding.seeds[1] = seeding.seeds[2]))

(***************************************************************************)
(* C14.  certificate_hash is a function of the certificate's logical       *)
(* content: the same certificate hashed twice, and two certificates with   *)
(* equal field values whose mappings were built in different insertion     *)
(* orders, get the same digest; two certificates that differ in the value  *)
(* of a single field get different digests.                                *)
(***************************************************************************)
C14_HashOfContent ==
    (certs # Off /\ certs.digests # <<>>) =>
       /\ certs.how \in {"same", "reloaded", "reordered"} =>
             certs.digests[1] = certs.digests[2]
       /\ certs.how = "edited" => certs.digests[1] # certs.digests[2]

\* a claim entry whose keys are in another order than make_certificate's
C14_Witness ==
    /\ certs # Off
    /\ certs.how = "reordered"
    /\ certs.digests # <<>>
    /\ certs.other[1].claims # certs.cert[1].claims
    /\ certs.digests[1] = certs.digests[2]

(***************************************************************************)
(* C15: sha256_hex of a certificate file that is unchanged since it was    *)
(* written returns the digest computed at write time, which is the digest  *)
(* of the whole file, every byte once and in order, whatever the length of *)
(* the file; once a single byte of the file has another value, sha256_hex  *)
(* returns another digest.                                                 *)
(***************************************************************************)
C15_FileDigest ==
    reader # Off =>
       /\ (reader.pc = "reading") =>
             reader.h = SubSeq(reader.file, 1, reader.pos)
       /\ (reader.digests # <<>> /\ reader.whole # <<>>) =>
             reader.digests[1] = reader.whole[1]
       /\ Len(reader.digests) = 2 =>
             (reader.digests[2] = reader.digests[1]) = ~reader.changed

\* a file of one full chunk and a last short one, hashed whole and read
\* twice by sha256_hex without a change in between
C15_Witness ==
    /\ reader # Off
    /\ Len(reader.digests) = 2
    /\ ~reader.changed
    /\ Len(reader.file) = ChunkSize + 1
    /\ reader.whole # <<>>

(***************************************************************************)
(* C16: the certificate make_certificate returns has one claims entry per  *)
(* claim result, in input order, whose failures, trialsRun,                *)
(* upper95FailureProb and rngCommit are the result's fields; its proofs    *)
(* are the proof artifacts of the first claim, then those of the second,   *)
(* and so on, each with its kind, uri and hash; and a certificate built    *)
(* again from the same inputs equals it in every field but createdAt.      *)
(***************************************************************************)
\* the number of proof artifacts of the first n claim results
RECURSIVE ProofsBefore(_, _)
ProofsBefore(crs, n) ==
    IF n = 0 THEN 0
    ELSE ProofsBefore(crs, n - 1) + Len(crs[n].claim.proofs)

C16_CertificateOfResults ==
    (certs # Off /\ certs.cert # <<>>) =>
       LET crs == certs.claim_results
           cert == certs.cert[1]
       IN  /\ cert.programHash = certs.program_hash
           /\ cert.machine = certs.machine
           /\ Len(cert.claims.v) = Len(crs)
           /\ \A k \in 1..Len(crs) :
                 LET entry == cert.claims.v[k]
                     res == Get(entry, "results")
                 IN  /\ Get(entry, "id") = crs[k].claim.id
                     /\ Get(res, "failures") = crs[k].failures
                     /\ Get(res, "trialsRun") = crs[k].trials_run
                     /\ Get(res, "upper95FailureProb") =
                           crs[k].upper95_failure_prob
                     /\ Get(res, "rngCommit") = crs[k].rng_commit
           /\ Len(cert.proofs.v) = ProofsBefore(crs, Len(crs))
           /\ \A k \in 1..Len(crs) :
                 \A n \in 1..Len(crs[k].claim.proofs) :
                    LET entry == cert.proofs.v[ProofsBefore(crs, k - 1) + n]
                        p == crs[k].claim.proofs[n]
                    IN  /\ Get(entry, "kind") = p.kind
                        /\ Get(entry, "uri") = p.uri
                        /\ Get(entry, "hash") = p.hash
           /\ certs.how = "rebuilt" =>
                 [certs.other[1] EXCEPT !.createdAt = cert.createdAt] = cert

\* two claim results with three proof artifacts between them, built into a
\* certificate twice at different times
C16_Witness ==
    /\ certs # Off
    /\ certs.how = "rebuilt"
    /\ certs.claim_results = <<CrFail, CrPass>>
    /\ Len(certs.cert[1].proofs.v) = 3
    /\ certs.other[1].createdAt # certs.cert[1].createdAt

(***************************************************************************)
(* C17: after any sequence of update calls from Beta(a0, b0), alpha is a0  *)
(* plus the number of outcomes equal to 1, beta is b0 plus the number of   *)
(* outcomes equal to 0, alpha + beta is a0 + b0 + len(history), history is *)
(* the outcomes in call order, posterior_mean is alpha / (alpha + beta),   *)
(* and ten outcomes equal to 1 from Beta(1, 1) give the mean 11/12.        *)
(***************************************************************************)
\* the number of outcomes in a sequence that equal x
RECURSIVE CountOf(_, _)
CountOf(outcomes, x) ==
    IF outcomes = <<>> THEN 0
    ELSE (IF Head(outcomes) = x THEN 1 ELSE 0) + CountOf(Tail(outcomes), x)

C17_BetaPosterior ==
    belief # Off =>
       /\ belief.history = belief.calls
       /\ belief.alpha = belief.a0 + CountOf(belief.calls, 1)
       /\ belief.beta = belief.b0 + CountOf(belief.calls, 0)
       /\ belief.alpha + belief.beta =
             belief.a0 + belief.b0 + Len(belief.history)
       /\ belief.mean # <<>> =>
             /\ SameQuotient(belief.mean[1],
                             [num |-> belief.a0 + CountOf(belief.calls, 1),
                              den |-> belief.a0 + belief.b0
                                         + Len(belief.calls)])
             /\ (belief.a0 = 1 /\ belief.b0 = 1
                   /\ belief.calls = [k \in 1..10 |-> 1]) =>
                   SameQuotient(belief.mean[1], [num |-> 11, den |-> 12])

\* Beta(1, 1) after ten outcomes equal to 1, its mean taken
C17_Witness ==
    /\ belief # Off
    /\ belief.a0 = 1 /\ belief.b0 = 1
    /\ belief.calls = [k \in 1..10 |-> 1]
    /\ belief.mean # <<>>

(***************************************************************************)
(* C18: for every generated list quicksort_3way returns the values of the  *)
(* list in ascending order, each as often as the list has it; so the       *)
(* sorting claim evaluated against quicksort3 returns failures = 0 and     *)
(* trials_run = claim.trials, hence upper95_failure_prob = 3/claim.trials  *)
(* for a budget of at least one trial.                                     *)
(***************************************************************************)
C18_Quicksort3Passes ==
    (gen # Off /\ impl_name = "quicksort3") =>
       /\ \A seed \in DOMAIN gen :
             LET inp == gen[seed]
                 out == quicksort_3way(inp)
             IN  /\ Len(out) = Len(inp)
                 /\ \A k, l \in 1..Len(out) : k < l => out[k] <= out[l]
                 /\ \A v \in 0..MaxValue :
                       Cardinality({k \in 1..Len(out) : out[k] = v}) =
                          Cardinality({k \in 1..Len(inp) : inp[k] = v})
       /\ Returned =>
             /\ ret[1].failures = 0
             /\ ret[1].trials_run = claim.trials
             /\ claim.trials > 0 =>
                   ret[1].upper95_failure_prob = <<3, claim.trials>>

\* a full budget run against quicksort3, one input being an unsorted list
\* with a repeated value
C18_Witness ==
    /\ gen # Off
    /\ impl_name = "quicksort3"
    /\ Returned
    /\ claim.trials = MaxSortTrials
    /\ ret[1].trials_run = claim.trials
    /\ \E seed \in DOMAIN gen :
          /\ ~is_sorted(gen[seed])
          /\ \E k, l \in 1..Len(gen[seed]) :
                k # l /\ gen[seed][k] = gen[seed][l]

(***************************************************************************)
(* C19: the sorting claim evaluated against buggy_quicksort returns        *)
(* failures > 0 whenever the generated input of at least one trial of the  *)
(* budget has a repeated value, and the output of every sample in          *)
(* sample_failures has another multiset of values than its input.          *)
(***************************************************************************)
HasRepeat(a) == \E k, l \in 1..Len(a) : k # l /\ a[k] = a[l]

C19_BuggyQuicksortCaught ==
    (gen # Off /\ impl_name = "buggy_quicksort" /\ Returned) =>
       /\ (\E seed \in DOMAIN gen : HasRepeat(gen[seed])) =>
             ret[1].failures > 0
       /\ \A n \in 1..Len(ret[1].sample_failures) :
             LET inp == gen[ret[1].sample_failures[n].input_data]
                 out == buggy_quicksort(inp)
             IN  \E v \in 0..MaxValue :
                    Cardinality({k \in 1..Len(out) : out[k] = v}) #
                       Cardinality({k \in 1..Len(inp) : inp[k] = v})

\* a run against buggy_quicksort in which a list without a repeated value
\* passed and a list with one became the sample counterexample
C19_Witness ==
    /\ gen # Off
    /\ impl_name = "buggy_quicksort"
    /\ Returned
    /\ ret[1].trials_run = 2
    /\ ret[1].failures = 1
    /\ Len(ret[1].sample_failures) = 1
    /\ HasRepeat(gen[ret[1].sample_failures[1].input_data])

(***************************************************************************)
(* C20: with stop_on_first_failure = FALSE, all the calls of               *)
(* parallel_trials on the same master_seed, claim and impl_name that       *)
(* return, whatever the worker count and the order in which the trials     *)
(* finished, return the same failures, trials_run and                      *)
(* upper95_failure_prob.                                                   *)
(***************************************************************************)
C20_ReproducibleResults ==
    ~claim.stop_on_first_failure =>
       \A a, b \in retLog :
          /\ a.result.failures = b.result.failures
          /\ a.result.trials_run = b.result.trials_run
          /\ a.result.upper95_failure_prob = b.result.upper95_failure_prob

\* two returned runs of more than one batch with a failure, on different
\* worker counts, in which some trial finished at different positions
C20_Witness ==
    /\ ~claim.stop_on_first_failure
    /\ claim.trials > batch
    /\ \E a, b \in retLog :
          /\ a.run # b.run
          /\ a.max_workers # b.max_workers
          /\ a.result.failures > 0
          /\ a.result.failures < a.result.trials_run
    /\ \E x, y \in trialLog :
          x.run # y.run /\ x.idx = y.idx /\ x.order # y.order

(***************************************************************************)
(* C21: in every reachable state of parallel_trials, whatever the order in *)
(* which the workers finish, failures is the number of outcomes of results *)
(* with passed = FALSE and no trial index is twice in results; and a step  *)
(* of a worker thread leaves failures, sample_failures and the dispatch    *)
(* cursor i as they are: only the thread running parallel_trials writes    *)
(* them.                                                                   *)
(***************************************************************************)
C21_SingleAggregator ==
    /\ [](/\ failures =
               Cardinality({k \in 1..Len(results) : ~results[k].passed})
          /\ \A k, l \in 1..Len(results) :
                results[k].idx = results[l].idx => k = l)
    /\ [][(worker' # worker /\ runs' = runs) =>
             UNCHANGED <<failures, sample_failures, results, i>>]_vars

\* two failures and a pass aggregated, a later index before an earlier one,
\* while a worker is still running a trial
C21_Witness ==
    /\ pc = "collect"
    /\ failures >= 2
    /\ Len(results) > failures
    /\ \E k, l \in 1..Len(results) : k < l /\ results[k].idx > results[l].idx
    /\ \E w \in Workers : worker[w] # Idle

(***************************************************************************)
(* C22: a trial of a batch is dispatched only when every trial of the      *)
(* earlier batches is in results, so at most batch trials are dispatched   *)
(* and not yet aggregated, and no index is dispatched twice; and when the  *)
(* early stop has triggered in batch b, every index below batch * b is in  *)
(* results with passed = TRUE.  (An index of batch b below the failing     *)
(* one may be missing from results: C22_Witness is such a state.)          *)
(***************************************************************************)
\* the indices whose outcome is in results
Aggregated == {results[k].idx : k \in 1..Len(results)}

C22_BatchDiscipline ==
    /\ \A j, l \in Dispatched : BatchOf(j) < BatchOf(l) => j \in Aggregated
    /\ Cardinality(Dispatched \ Aggregated) <= batch
    /\ Dispatched \subseteq 0..(claim.trials - 1)
    /\ \A k, l \in 1..Len(queue) : queue[k] = queue[l] => k = l
    /\ \A k \in 1..Len(queue) :
          /\ queue[k] \notin DOMAIN done
          /\ \A w \in Workers : worker[w] # Some(queue[k])
    /\ \A w, v \in Workers :
          (worker[w] # Idle /\ worker[w] = worker[v]) => w = v
    /\ \A w \in Workers : worker[w] # Idle => worker[w][1] \notin DOMAIN done
    /\ \A a, b \in trialLog : (a.run = b.run /\ a.idx = b.idx) => a = b
    /\ (claim.stop_on_first_failure /\ failures > 0) =>
          \A j \in 0..(batch * BatchOf(sample_failures[1].idx) - 1) :
             \E k \in 1..Len(results) :
                results[k].idx = j /\ results[k].passed

\* the early stop triggered in the second batch on its last index, whose
\* lower neighbour of the same batch is not in results at the return
C22_Witness ==
    /\ Returned
    /\ claim.stop_on_first_failure
    /\ failures > 0
    /\ BatchOf(sample_failures[1].idx) = 1
    /\ \E j \in Dispatched \ Aggregated :
          /\ BatchOf(j) = 1
          /\ j < sample_failures[1].idx
    /\ \A j \in 0..(batch - 1) : j \in Aggregated

(***************************************************************************)
(* C23: when every worker thread keeps running and every started trial     *)
(* finishes, a call of parallel_trials in which no trial raises eventually *)
(* returns a ClaimResult, whatever the budget (0 included), the worker     *)
(* count and the stop setting; every pass through line 124 and every break *)
(* moves the dispatch cursor up; and the call is not left while a          *)
(* dispatched trial is queued or running, so a trial that never finishes   *)
(* keeps it from returning.                                                *)
(***************************************************************************)
InCall == pc \notin {"idle", "returned", "raised"}

C23_EventuallyReturns ==
    /\ (InCall /\ plugins.raises = {}) ~> Returned
    /\ InCall ~> (pc \in {"returned", "raised"})
    /\ [][(i' # i /\ runs' = runs) => i' > i]_vars
    /\ [][(pc = "after_for" /\ pc' # pc) => i' > i]_vars
    /\ [](pc \in {"returned", "raised"} =>
            (queue = <<>> /\ \A w \in Workers : worker[w] = Idle))

\* a call of several batches on the widest pool returned with its whole
\* budget run
C23_Witness ==
    /\ Returned
    /\ ~claim.stop_on_first_failure
    /\ claim.trials = MaxTrials
    /\ max_workers = MaxWorkers
    /\ ret[1].trials_run = claim.trials

(***************************************************************************)
(* C24: with stop_on_first_failure = TRUE every call that returns, on any  *)
(* worker count and in any completion order, returns failures = 1 with     *)
(* exactly one sample failure if the trial of some index of                *)
(* 0..claim.trials-1 fails, and failures = 0 with no sample otherwise,     *)
(* also when several trials of one batch fail.                             *)
(***************************************************************************)
\* the indices of the budget whose trial the oracle rejects
FailingIndices ==
    {k \in 0..(claim.trials - 1) :
        derive_seed(master_seed, claim.id, k) \in plugins.rejects}

C24_AtMostOneFailure ==
    claim.stop_on_first_failure =>
       /\ failures <= 1
       /\ \A a \in retLog :
             /\ a.result.failures = IF FailingIndices # {} THEN 1 ELSE 0
             /\ Len(a.result.sample_failures) = a.result.failures
             /\ \A k \in 1..Len(a.result.sample_failures) :
                   a.result.sample_failures[k].idx \in FailingIndices

\* two trials of one batch both ran and failed, and the call returned one
\* failure
C24_Witness ==
    /\ Returned
    /\ claim.stop_on_first_failure
    /\ ret[1].failures = 1
    /\ \E j, l \in DOMAIN done :
          /\ j # l
          /\ BatchOf(j) = BatchOf(l)
          /\ done[j].exception = None /\ ~done[j].result[1].passed
          /\ done[l].exception = None /\ ~done[l].result[1].passed

(***************************************************************************)
(* C25: the sweep reports the first candidate, in the order of rhos, whose *)
(* trials have a negative average of mergesort comparisons minus           *)
(* quicksort3 comparisons, and None when no candidate has one; the         *)
(* averages of the candidates after it make no difference.                 *)
(***************************************************************************)
\* the candidates whose gaps add up to less than 0
NegativeCandidates ==
    {k \in 1..Len(sweep.totals) : sweep.totals[k] < 0}

C25_FirstCrossing ==
    (sweep # Off /\ sweep.pc = "done") =>
       /\ Len(sweep.totals) = Len(rhos)
       /\ sweep.rho_threshold =
             IF NegativeCandidates = {} THEN Absent
             ELSE Some(rhos[CHOOSE k \in NegativeCandidates :
                               \A l \in NegativeCandidates : k <= l])

\* the second candidate is reported: the first has an average of 0, and
\* after the second come a negative and a positive one
C25_Witness ==
    /\ sweep # Off
    /\ sweep.pc = "done"
    /\ sweep.rho_threshold = Some(rhos[2])
    /\ sweep.totals[1] = 0
    /\ sweep.totals[3] < 0
    /\ sweep.totals[4] > 0

====
